---- MODULE Spec2Model ----
(***************************************************************************)
(* A model of src/src/components/article/ArticleHeader.tsx: the featured   *)
(* image resolution and the hero / placeholder choice of the ArticleHeader *)
(* component, and its two formatters, formatDate and formatReadingTime.    *)
(*                                                                         *)
(* JavaScript values are tagged records: the tag t is the value's kind.    *)
(* An object carries its own properties as further record fields; a        *)
(* property that is not there reads as undefined, as in JavaScript.        *)
(***************************************************************************)
EXTENDS Integers, Sequences, FiniteSets, TLC

VARIABLES
    inst,       \* per mounted ArticleHeader: its props and what it rendered
    tz,         \* the runtime's local time zone, minutes east of UTC
    fn,         \* the formatter being called, "none" when there is no call
    fnPc,       \* position of the formatter call: "idle", "called", "returned"
    fnArg,      \* the argument the formatter was called with
    fnResult    \* what the formatter returned

vars == <<inst, tz, fn, fnPc, fnArg, fnResult>>

---------------------------------------------------------------------------
(* JavaScript values and the operators the component uses on them *)

Undefined == [t |-> "undefined"]
Null == [t |-> "null"]
NaN == [t |-> "NaN"]
TypeError == [t |-> "TypeError"]
Str(s) == [t |-> "string", s |-> s]
Num(n) == [t |-> "number", n |-> n]
Arr(items) == [t |-> "array", items |-> items]
\* the CMS wrapper { value: v } of one asset field
Val(v) == [t |-> "object", value |-> v]

IsNullish(v) == v.t \in {"undefined", "null"}
IsThrow(v) == v.t = "TypeError"

\* ToBoolean: undefined, null, NaN, 0 and "" are falsy
ToBoolean(v) ==
    CASE v.t \in {"undefined", "null", "NaN"} -> FALSE
      [] v.t = "string" -> v.s # ""
      [] v.t = "number" -> v.n # 0
      [] OTHER -> TRUE

\* v.k : reading a property of undefined or null throws a TypeError
Get(v, k) ==
    IF IsThrow(v) \/ IsNullish(v) THEN TypeError
    ELSE IF v.t = "object" /\ k \in DOMAIN v THEN v[k]
    ELSE Undefined

\* v?.k : undefined for undefined or null, v.k otherwise
OptGet(v, k) == IF IsNullish(v) THEN Undefined ELSE Get(v, k)

\* a || b
Or(a, b) == IF IsThrow(a) THEN a ELSE IF ToBoolean(a) THEN a ELSE b

\* a ?? b
Coalesce(a, b) == IF IsNullish(a) THEN b ELSE a

\* const [x] = a : the first element, undefined for an empty array; a value
\* that is not iterable throws
FirstOfLast(a) ==
    IF a.t # "array" THEN TypeError
    ELSE IF Len(a.items) = 0 THEN Undefined ELSE a.items[Len(a.items)]

FirstOf(a) ==
    IF a.t # "array" THEN TypeError
    ELSE IF Len(a.items) = 0 THEN Undefined ELSE a.items[1]

---------------------------------------------------------------------------
(* The featured image: lines 74-93 *)

TransformWidth == 1200
TransformHeight == 600
AspectWidth == 1200
AspectHeight == 630
DefaultFocal == "center"
FallbackAlt == "Article featured image"

\* const imageAssets = featuredImage ?? [];
imageAssets(featuredImage) == Coalesce(featuredImage, Arr(<<>>))

\* const [firstAsset] = imageAssets;
firstAsset(featuredImage) == FirstOf(imageAssets(featuredImage))

\* firstAsset.fields.focalPoint.value || "center", the chain without ?.
focalUnchained(asset) ==
    Or(Get(Get(Get(asset, "fields"), "focalPoint"), "value"), Str(DefaultFocal))

\* firstAsset.fields?.focalPoint?.value ?? "center", which keeps an empty value
focalNullish(asset) ==
    Coalesce(OptGet(OptGet(Get(asset, "fields"), "focalPoint"), "value"),
             Str(DefaultFocal))

\* firstAsset.fields?.focalPoint?.value || "center"
focal(asset) ==
    Or(OptGet(OptGet(Get(asset, "fields"), "focalPoint"), "value"),
       Str(DefaultFocal))

\* a transform that takes the documented 1200x630 for its size
transformDocumented(asset) ==
    LET f == focal(asset)
    IN  IF IsThrow(f) THEN TypeError
        ELSE [t |-> "object", width |-> AspectWidth, height |-> AspectHeight,
              fit |-> "cover", focal |-> f]

\* the object handed to .transform(); evaluating its focal may throw
transform(asset) ==
    LET f == focal(asset)
    IN  IF IsThrow(f) THEN TypeError
        ELSE [t |-> "object", width |-> TransformWidth,
              height |-> TransformHeight, fit |-> "cover", focal |-> f]

\* imageFrom(asset).transform(request).url() of @uniformdev/assets: the
\* asset's binary location with the request as its query, undefined for an
\* asset with no usable location
imageFrom(asset, request) ==
    LET location == OptGet(OptGet(OptGet(asset, "fields"), "url"), "value")
    IN  IF IsThrow(request) THEN TypeError
        ELSE IF location.t = "string" /\ location.s # ""
        THEN Str(location.s \o "?width=" \o ToString(request.width)
                 \o "&height=" \o ToString(request.height)
                 \o "&fit=" \o request.fit
                 \o "&focal=" \o (IF request.focal.t = "string"
                                  THEN request.focal.s ELSE "object"))
        ELSE Undefined

\* the request .transform() receives; none when firstAsset is falsy
transformRequest(asset) ==
    IF IsThrow(asset) THEN TypeError
    ELSE IF ToBoolean(asset) THEN transform(asset) ELSE Undefined

\* a resolver that builds the request whether or not there is an asset
imageUrlUnguarded(asset) ==
    IF IsThrow(asset) THEN TypeError
    ELSE imageFrom(asset, transform(asset))

\* const imageUrl = firstAsset ? imageFrom(firstAsset).transform({..}).url()
\*                             : undefined;
imageUrl(asset) ==
    IF IsThrow(asset) THEN TypeError
    ELSE IF ToBoolean(asset) THEN imageFrom(asset, transformRequest(asset))
    ELSE Undefined

\* the alt text with title tried before description
imageAltTitleFirst(asset) ==
    Or(OptGet(OptGet(OptGet(asset, "fields"), "title"), "value"),
       Or(OptGet(OptGet(OptGet(asset, "fields"), "description"), "value"),
          Str(FallbackAlt)))

\* const imageAlt = firstAsset?.fields?.description?.value ||
\*                  firstAsset?.fields?.title?.value || 'Article featured image';
imageAlt(asset) ==
    Or(OptGet(OptGet(OptGet(asset, "fields"), "description"), "value"),
       Or(OptGet(OptGet(OptGet(asset, "fields"), "title"), "value"),
          Str(FallbackAlt)))

\* {imageUrl && (<Image src={imageUrl} alt={imageAlt} .../>)}
heroBlock(url, alt) ==
    IF ToBoolean(url) THEN [t |-> "object", src |-> url, alt |-> alt]
    ELSE Undefined

\* a placeholder shown only when there is no first asset
placeholderBlockNoAsset(url, asset) == ~ToBoolean(asset)

\* {!imageUrl && (<div> ... Select featured image in the panel ... </div>)}
placeholderBlock(url, asset) == ~ToBoolean(url)

---------------------------------------------------------------------------
(* One render pass of a mounted component: lines 48-177 *)

\* a component that has received props and not rendered them yet
Pending(featuredImage) ==
    [pc |-> "pending", featuredImage |-> featuredImage,
     request |-> Undefined, imageUrl |-> Undefined, imageAlt |-> Undefined,
     hero |-> Undefined, placeholder |-> FALSE]

\* the render threw: nothing is output
Threw(featuredImage) ==
    [pc |-> "threw", featuredImage |-> featuredImage,
     request |-> Undefined, imageUrl |-> Undefined, imageAlt |-> Undefined,
     hero |-> Undefined, placeholder |-> FALSE]

\* the body of the component function, from the props to the blocks output
Rendered(featuredImage) ==
    LET asset == firstAsset(featuredImage)
        request == transformRequest(asset)
        url == imageUrl(asset)
        alt == imageAlt(asset)
    IN  IF IsThrow(asset) \/ IsThrow(request) \/ IsThrow(url) \/ IsThrow(alt)
        THEN Threw(featuredImage)
        ELSE [pc |-> "rendered", featuredImage |-> featuredImage,
              request |-> request, imageUrl |-> url, imageAlt |-> alt,
              hero |-> heroBlock(url, alt),
              placeholder |-> placeholderBlock(url, asset)]

---------------------------------------------------------------------------
(* The props the host passes: featuredImage?: AssetParamValue, line 17 *)

\* how many candidates may follow the first one
MaxTail == 1

FocalPointFields ==
    {Undefined, Str("top"), Val(Str("")), Val(Str("top"))}
DescriptionFields ==
    {Undefined, Val(Undefined), Val(Str("")), Val(Str("A lighthouse at dusk"))}
TitleFields == {Undefined, Val(Str("")), Val(Str("Lighthouse"))}
UrlFields == {Undefined, Val(Str("https://img.example/a.jpg"))}

\* an asset reference: { fields?: { focalPoint?, description?, title?, url? } }
Asset(fields) == [t |-> "object", fields |-> fields]

Assets ==
    {[t |-> "object"], Asset(Null)} \cup
    {Asset([t |-> "object", focalPoint |-> f, description |-> d,
            title |-> ti, url |-> u]) :
        f \in FocalPointFields, d \in DescriptionFields,
        ti \in TitleFields, u \in UrlFields}

\* the candidates that may follow the first
TailAssets ==
    {[t |-> "object"],
     Asset([t |-> "object", focalPoint |-> Val(Str("bottom")),
            description |-> Val(Str("A second image")),
            title |-> Val(Str("Second")),
            url |-> Val(Str("https://img.example/b.jpg"))])}

RECURSIVE Tails(_)
Tails(n) ==
    IF n = 0 THEN {<<>>}
    ELSE Tails(n - 1) \cup
         {Append(s, a) : s \in {x \in Tails(n - 1) : Len(x) = n - 1},
                         a \in TailAssets}

\* the values of the featuredImage prop: absent, null, or a candidate list
FeaturedImages(firsts) ==
    {Undefined, Null, Arr(<<>>)} \cup
    {Arr(<<a>> \o s) : a \in firsts, s \in Tails(MaxTail)}

\* the first candidates of the two-component specification
PairFirsts ==
    {[t |-> "object"],
     Asset([t |-> "object", focalPoint |-> Undefined,
            description |-> Undefined, title |-> Undefined,
            url |-> Val(Str("https://img.example/a.jpg"))]),
     Asset([t |-> "object", focalPoint |-> Val(Str("top")),
            description |-> Val(Str("A lighthouse at dusk")),
            title |-> Val(Str("Lighthouse")),
            url |-> Val(Str("https://img.example/a.jpg"))]),
     Asset([t |-> "object", focalPoint |-> Val(Str("bottom")),
            description |-> Val(Str("A second image")),
            title |-> Val(Str("Second")),
            url |-> Val(Str("https://img.example/b.jpg"))])}

Idle == [Pending(Undefined) EXCEPT !.pc = "idle"]

\* the host passes props to component i
ReceiveProps(i, featuredImage) ==
    /\ inst[i].pc # "pending"
    /\ inst' = [inst EXCEPT ![i] = Pending(featuredImage)]
    /\ UNCHANGED <<tz, fn, fnPc, fnArg, fnResult>>

\* component i renders the props it holds
Render(i) ==
    /\ inst[i].pc = "pending"
    /\ inst' = [inst EXCEPT ![i] = Rendered(inst[i].featuredImage)]
    /\ UNCHANGED <<tz, fn, fnPc, fnArg, fnResult>>

Init ==
    /\ inst = [i \in {1} |-> Idle]
    /\ tz = 0
    /\ fn = "none"
    /\ fnPc = "idle"
    /\ fnArg = Undefined
    /\ fnResult = Undefined

Next ==
    \/ \E featuredImage \in FeaturedImages(Assets) : ReceiveProps(1, featuredImage)
    \/ Render(1)

Spec == Init /\ [][Next]_vars

\* two mounted components, rendered independently
InitPair ==
    /\ inst = [i \in {1, 2} |-> Idle]
    /\ tz = 0
    /\ fn = "none"
    /\ fnPc = "idle"
    /\ fnArg = Undefined
    /\ fnResult = Undefined

NextPair ==
    \/ \E i \in {1, 2}, featuredImage \in FeaturedImages(PairFirsts) :
           ReceiveProps(i, featuredImage)
    \/ \E i \in {1, 2} : Render(i)

SpecPair == InitPair /\ [][NextPair]_vars

---------------------------------------------------------------------------
(* Strings and numbers: what template literals and Date parsing do *)

Digits == "0123456789"

DigitChar(d) == SubSeq(Digits, d + 1, d + 1)
IsDigit(c) == \E d \in 0..9 : DigitChar(d) = c
DigitValue(c) == CHOOSE d \in 0..9 : DigitChar(d) = c

\* the decimal digits of a natural number, most significant first
RECURSIVE ToDecimal(_)
ToDecimal(n) ==
    IF n < 10 THEN DigitChar(n)
    ELSE ToDecimal(n \div 10) \o DigitChar(n % 10)

\* Number::toString of an integer, as `${n}` yields it
NumberToString(n) == IF n < 0 THEN "-" \o ToDecimal(-n) ELSE ToDecimal(n)

\* the number a string of decimal digits denotes, -1 when it is not one
RECURSIVE DigitsValue(_, _)
DigitsValue(s, acc) ==
    IF Len(s) = 0 THEN acc
    ELSE IF ~IsDigit(Head(s)) THEN -1
    ELSE DigitsValue(Tail(s), acc * 10 + DigitValue(Head(s)))

ParseDigits(s) == IF Len(s) = 0 THEN -1 ELSE DigitsValue(s, 0)

---------------------------------------------------------------------------
(* Dates: new Date(string) and toLocaleDateString('en-US', ...) *)

MinutesPerDay == 24 * 60

IsLeapYear(y) == (y % 4 = 0 /\ y % 100 # 0) \/ y % 400 = 0

DaysInMonth(y, m) ==
    IF m = 2 THEN (IF IsLeapYear(y) THEN 29 ELSE 28)
    ELSE IF m \in {4, 6, 9, 11} THEN 30 ELSE 31

\* days from 1970-01-01 to the civil date y-m-d
DaysFromCivil(y, m, d) ==
    LET yy == IF m <= 2 THEN y - 1 ELSE y
        era == yy \div 400
        yoe == yy - era * 400
        mp == IF m > 2 THEN m - 3 ELSE m + 9
        doy == (153 * mp + 2) \div 5 + d - 1
        doe == yoe * 365 + yoe \div 4 - yoe \div 100 + doy
    IN  era * 146097 + doe - 719468

\* the civil date of a day count from 1970-01-01
CivilFromDays(z) ==
    LET zz == z + 719468
        era == zz \div 146097
        doe == zz - era * 146097
        yoe == (doe - doe \div 1460 + doe \div 36524 - doe \div 146096) \div 365
        doy == doe - (365 * yoe + yoe \div 4 - yoe \div 100)
        mp == (5 * doy + 2) \div 153
        d == doy - (153 * mp + 2) \div 5 + 1
        m == IF mp < 10 THEN mp + 3 ELSE mp - 9
        y == yoe + era * 400 + (IF m <= 2 THEN 1 ELSE 0)
    IN  [y |-> y, m |-> m, d |-> d]

\* new Date(s) for the date-only form YYYY-MM-DD, which is read as midnight
\* UTC; anything else modelled here is an invalid date. The time value is
\* held in minutes since the epoch.
NewDate(s) ==
    IF Len(s) = 10 /\ SubSeq(s, 5, 5) = "-" /\ SubSeq(s, 8, 8) = "-"
    THEN LET y == ParseDigits(SubSeq(s, 1, 4))
             m == ParseDigits(SubSeq(s, 6, 7))
             d == ParseDigits(SubSeq(s, 9, 10))
         IN  IF y >= 0 /\ m \in 1..12 /\ d >= 1 /\ d <= DaysInMonth(y, m)
             THEN Num(DaysFromCivil(y, m, d) * MinutesPerDay)
             ELSE NaN
    ELSE NaN

MonthNames ==
    <<"January", "February", "March", "April", "May", "June", "July",
      "August", "September", "October", "November", "December">>

\* date.toLocaleDateString('en-US', { year: 'numeric', month: 'long',
\* day: 'numeric' }): no timeZone option, so the fields are those of the
\* runtime's local time, offset minutes east of UTC
toLocaleDateString(date, offset) ==
    IF date = NaN THEN "Invalid Date"
    ELSE LET c == CivilFromDays((date.n + offset) \div MinutesPerDay)
         IN  MonthNames[c.m] \o " " \o NumberToString(c.d)
                 \o ", " \o NumberToString(c.y)

\* lines 57-64
formatDate(dateString) ==
    IF ~ToBoolean(dateString) THEN Str("")
    ELSE Str(toLocaleDateString(NewDate(dateString.s), tz))

\* a formatter that tests for undefined alone
formatReadingTimeUndefinedOnly(time) ==
    IF time = Undefined THEN Str("")
    ELSE IF time.t \in {"number", "NaN"}
    THEN Str((IF time = NaN THEN "NaN" ELSE NumberToString(time.n))
             \o " min read")
    ELSE time

\* lines 66-72
formatReadingTime(time) ==
    IF ~ToBoolean(time) THEN Str("")
    ELSE IF time.t = "number" THEN Str(NumberToString(time.n) \o " min read")
    ELSE time

---------------------------------------------------------------------------
(* The formatters, called on their own *)

FirstYear == 2023
NumYears == 2
MaxMinutes == 30

Years == FirstYear..(FirstYear + NumYears - 1)

\* n written with at least w digits
RECURSIVE Pad(_, _)
Pad(str, w) == IF Len(str) >= w THEN str ELSE Pad("0" \o str, w)

IsoDate(y, m, d) ==
    Pad(ToDecimal(y), 4) \o "-" \o Pad(ToDecimal(m), 2) \o "-"
        \o Pad(ToDecimal(d), 2)

DateStrings ==
    {Str(""), Str("not a date")} \cup
    {Str(IsoDate(y, m, d)) : <<y, m, d>> \in
        {c \in Years \X (1..12) \X (1..31) : c[3] <= DaysInMonth(c[1], c[2])}}

\* local time zones, in minutes east of UTC
TimeZones == {-480, -300, 0, 60, 330, 540}

ReadingTimes ==
    {Undefined, Null, NaN, Str(""), Str("7 min read"), Str("5"),
     Str("a quarter of an hour")} \cup
    {Num(n) : n \in (-MaxMinutes)..MaxMinutes}

FormatDate ==
    /\ fn = "formatDate"
    /\ fnPc = "called"
    /\ fnResult' = formatDate(fnArg)
    /\ fnPc' = "returned"
    /\ UNCHANGED <<inst, tz, fn, fnArg>>

FormatReadingTime ==
    /\ fn = "formatReadingTime"
    /\ fnPc = "called"
    /\ fnResult' = formatReadingTime(fnArg)
    /\ fnPc' = "returned"
    /\ UNCHANGED <<inst, tz, fn, fnArg>>

InitDate ==
    /\ inst = [i \in {1} |-> Idle]
    /\ tz \in TimeZones
    /\ fn = "formatDate"
    /\ fnPc = "called"
    /\ fnArg \in DateStrings
    /\ fnResult = Undefined

NextDate == FormatDate

SpecDate == InitDate /\ [][NextDate]_vars

InitReading ==
    /\ inst = [i \in {1} |-> Idle]
    /\ tz = 0
    /\ fn = "formatReadingTime"
    /\ fnPc = "called"
    /\ fnArg \in ReadingTimes
    /\ fnResult = Undefined

NextReading == FormatReadingTime

SpecReading == InitReading /\ [][NextReading]_vars

---------------------------------------------------------------------------
(* What the properties below speak of *)

\* component i has finished a render pass, by returning or by throwing
Done(i) == inst[i].pc \in {"rendered", "threw"}

\* the featuredImage prop of component i is empty or absent
NoCandidates(i) == inst[i].featuredImage \in {Undefined, Null, Arr(<<>>)}

\* the featuredImage prop of component i holds at least one candidate
HasCandidate(i) ==
    /\ inst[i].featuredImage.t = "array"
    /\ Len(inst[i].featuredImage.items) > 0

Candidate(i) == inst[i].featuredImage.items[1]

\* asset a has field name, wrapped as { value }, with a non-empty string
HasText(a, name) ==
    /\ "fields" \in DOMAIN a
    /\ a.fields.t = "object"
    /\ name \in DOMAIN a.fields
    /\ a.fields[name].t = "object"
    /\ "value" \in DOMAIN a.fields[name]
    /\ a.fields[name].value.t = "string"
    /\ a.fields[name].value.s # ""

\* { fields: { focalPoint: { value: "top" } } }
ScenarioAsset ==
    Asset([t |-> "object", focalPoint |-> Val(Str("top")),
           description |-> Undefined, title |-> Undefined, url |-> Undefined])

\* C1: with an empty or absent candidate list the render returns without an
\* error, imageUrl is undefined and no transform request was built.
C1_EmptyIsNoImage ==
    \A i \in DOMAIN inst :
        (Done(i) /\ NoCandidates(i)) =>
            /\ inst[i].pc = "rendered"
            /\ inst[i].imageUrl = Undefined
            /\ inst[i].request = Undefined

C1_Witness ==
    \E i \in DOMAIN inst :
        inst[i].pc = "rendered" /\ inst[i].featuredImage = Arr(<<>>)

\* C2: alt is the first asset's description when that is a non-empty
\* string, whatever the title; else its title when that is a non-empty
\* string; else 'Article featured image'. It is never empty or undefined.
C2_AltChain ==
    \A i \in DOMAIN inst :
        (Done(i) /\ HasCandidate(i)) =>
            /\ inst[i].pc = "rendered"
            /\ inst[i].imageAlt =
                 IF HasText(Candidate(i), "description")
                 THEN Candidate(i).fields.description.value
                 ELSE IF HasText(Candidate(i), "title")
                 THEN Candidate(i).fields.title.value
                 ELSE Str("Article featured image")
            /\ inst[i].imageAlt.t = "string"
            /\ inst[i].imageAlt.s # ""

C2_Witness ==
    \E i \in DOMAIN inst :
        /\ inst[i].pc = "rendered"
        /\ HasCandidate(i)
        /\ HasText(Candidate(i), "description")
        /\ HasText(Candidate(i), "title")
        /\ inst[i].imageAlt = Candidate(i).fields.description.value

\* C3: the focal of the transform request is the first asset's focalPoint
\* value when that is a non-empty string, and "center" otherwise.
C3_Focal ==
    \A i \in DOMAIN inst :
        (Done(i) /\ HasCandidate(i)) =>
            /\ inst[i].pc = "rendered"
            /\ inst[i].request # Undefined
            /\ inst[i].request.focal =
                 IF HasText(Candidate(i), "focalPoint")
                 THEN Candidate(i).fields.focalPoint.value
                 ELSE Str("center")

C3_Witness ==
    \E i \in DOMAIN inst :
        /\ inst[i].pc = "rendered"
        /\ HasCandidate(i)
        /\ "fields" \in DOMAIN Candidate(i)
        /\ Candidate(i).fields.t = "object"
        /\ Candidate(i).fields.focalPoint = Val(Str(""))
        /\ inst[i].request.focal = Str("center")

\* C4: two renders whose candidate lists have the same first element give
\* the same transform request, url and alt, whatever follows that element.
C4_OnlyFirst ==
    \A i, j \in DOMAIN inst :
        (/\ Done(i) /\ Done(j)
         /\ HasCandidate(i) /\ HasCandidate(j)
         /\ Candidate(i) = Candidate(j)) =>
            /\ inst[i].pc = "rendered"
            /\ inst[j].pc = "rendered"
            /\ inst[i].request = inst[j].request
            /\ inst[i].imageUrl = inst[j].imageUrl
            /\ inst[i].imageAlt = inst[j].imageAlt

C4_Witness ==
    \E i, j \in DOMAIN inst :
        /\ inst[i].pc = "rendered" /\ inst[j].pc = "rendered"
        /\ HasCandidate(i) /\ HasCandidate(j)
        /\ Candidate(i) = Candidate(j)
        /\ Len(inst[i].featuredImage.items) = 1
        /\ Len(inst[j].featuredImage.items) > 1
        /\ inst[j].featuredImage.items[2] # Candidate(j)
        /\ inst[i].imageUrl.t = "string"

\* C5: the transform request is exactly { width: 1200, height: 600,
\* fit: "cover", focal }; for { fields: { focalPoint: { value: "top" } } }
\* it is { 1200, 600, "cover", "top" } and alt is the fallback string.
C5_TransformRequest ==
    \A i \in DOMAIN inst :
        (Done(i) /\ HasCandidate(i)) =>
            /\ inst[i].pc = "rendered"
            /\ inst[i].request # Undefined
            /\ DOMAIN inst[i].request = {"t", "width", "height", "fit", "focal"}
            /\ inst[i].request.width = 1200
            /\ inst[i].request.height = 600
            /\ inst[i].request.fit = "cover"
            /\ (Candidate(i) = ScenarioAsset =>
                  /\ inst[i].request.focal = Str("top")
                  /\ inst[i].imageAlt = Str("Article featured image"))

C5_Witness ==
    \E i \in DOMAIN inst :
        /\ inst[i].pc = "rendered"
        /\ HasCandidate(i)
        /\ Candidate(i) = ScenarioAsset
        /\ inst[i].request.focal = Str("top")

\* C6: the width and height requested in the transform are in the ratio
\* 1200:630 of the container the image is rendered into.
C6_AspectRatio ==
    \A i \in DOMAIN inst :
        (inst[i].pc = "rendered" /\ inst[i].request # Undefined) =>
            inst[i].request.width * AspectHeight
                = inst[i].request.height * AspectWidth

\* C9: every render pass returns, with a string or undefined url and a
\* string alt, and leaves the featuredImage it was given as it was.
C9_Total ==
    [][\A i \in DOMAIN inst :
          (inst[i].pc = "pending" /\ inst'[i].pc # "pending") =>
              /\ inst'[i].pc = "rendered"
              /\ inst'[i].featuredImage = inst[i].featuredImage
              /\ inst'[i].imageUrl.t \in {"string", "undefined"}
              /\ inst'[i].imageAlt.t = "string"]_vars

C9_Witness ==
    \E i \in DOMAIN inst :
        /\ inst[i].pc = "rendered"
        /\ HasCandidate(i)
        /\ "fields" \in DOMAIN Candidate(i)
        /\ Candidate(i).fields = Null
        /\ inst[i].imageUrl = Undefined

\* the first asset of component i has a usable binary location
HasLocation(i) == HasCandidate(i) /\ HasText(Candidate(i), "url")

\* C10 as stated: exactly one of the hero and the placeholder is output, the
\* placeholder exactly when the candidate list is empty or absent, and the
\* hero with the resolved url and alt whenever an asset was selected.
C10_Original ==
    \A i \in DOMAIN inst :
        Done(i) =>
            /\ inst[i].pc = "rendered"
            /\ (inst[i].hero # Undefined) # inst[i].placeholder
            /\ inst[i].placeholder <=> NoCandidates(i)
            /\ HasCandidate(i) =>
                 inst[i].hero = [t |-> "object", src |-> inst[i].imageUrl,
                                 alt |-> inst[i].imageAlt]

\* C10 amended: exactly one of the hero and the placeholder is output; the
\* placeholder exactly when no url was resolved, that is when the list is
\* empty or absent or its first asset has no usable binary location; the
\* hero, with the resolved url and alt, exactly when the first asset has one.
C10_Amended ==
    \A i \in DOMAIN inst :
        Done(i) =>
            /\ inst[i].pc = "rendered"
            /\ (inst[i].hero # Undefined) # inst[i].placeholder
            /\ inst[i].placeholder <=> (NoCandidates(i) \/ ~HasLocation(i))
            /\ HasLocation(i) =>
                 /\ inst[i].imageUrl.t = "string"
                 /\ inst[i].imageUrl.s # ""
                 /\ inst[i].hero = [t |-> "object", src |-> inst[i].imageUrl,
                                    alt |-> inst[i].imageAlt]

C10_Witness ==
    \E i \in DOMAIN inst :
        /\ inst[i].pc = "rendered"
        /\ HasCandidate(i)
        /\ ~HasLocation(i)
        /\ inst[i].placeholder
        /\ inst[i].hero = Undefined

\* C7: formatReadingTime gives "" for undefined and every other falsy
\* input, "<n> min read" for every other number n, and every other string
\* unchanged.
C7_FormatReadingTime ==
    (fn = "formatReadingTime" /\ fnPc = "returned") =>
        /\ fnArg \in {Undefined, Null, NaN, Num(0), Str("")} =>
             fnResult = Str("")
        /\ (fnArg.t = "number" /\ fnArg.n # 0) =>
             /\ fnResult.t = "string"
             /\ Len(fnResult.s) > 9
             /\ SubSeq(fnResult.s, Len(fnResult.s) - 8, Len(fnResult.s))
                  = " min read"
             /\ LET digits == SubSeq(fnResult.s, 1, Len(fnResult.s) - 9)
                IN  IF fnArg.n < 0
                    THEN /\ Head(digits) = "-"
                         /\ Head(Tail(digits)) # "0"
                         /\ ParseDigits(Tail(digits)) = -fnArg.n
                    ELSE /\ Head(digits) # "0"
                         /\ ParseDigits(digits) = fnArg.n
        /\ fnArg = Num(5) => fnResult = Str("5 min read")
        /\ (fnArg.t = "string" /\ fnArg.s # "") => fnResult = fnArg
        /\ fnArg = Str("7 min read") => fnResult = Str("7 min read")

C7_Witness ==
    /\ fn = "formatReadingTime"
    /\ fnPc = "returned"
    /\ fnArg = Num(5)
    /\ fnResult = Str("5 min read")

\* C8: formatDate gives "" for "", and for every valid calendar date string
\* a string "<Month> <Day>, <Year>" whose month is the full English name of
\* that date's month.
C8_FormatDate ==
    (fn = "formatDate" /\ fnPc = "returned") =>
        /\ fnArg = Str("") => fnResult = Str("")
        /\ \A y \in Years, m \in 1..12 :
             \A d \in 1..DaysInMonth(y, m) :
                fnArg = Str(IsoDate(y, m, d)) =>
                    \E day \in 1..31, year \in (FirstYear - 1)..(FirstYear + NumYears) :
                        fnResult = Str(MonthNames[m] \o " " \o NumberToString(day)
                                       \o ", " \o NumberToString(year))

====
